---- MODULE Spec2Model ----
(***************************************************************************)
(* Post-processing compositor of Scene.cpp: start-up and shutdown of the   *)
(* off-screen colour buffers, the per-frame update of the effect flags and *)
(* tunables, and the sequence of GPU commands RenderScene issues.          *)
(*                                                                         *)
(* Conventions                                                             *)
(*  - Times are whole seconds and hues whole degrees: values for which the *)
(*    float arithmetic of the code is exact.                               *)
(*  - gD3DContext holds the bindings the program has requested (render     *)
(*    target, pixel shader, pixel-shader resource slots 0 and 1), exactly  *)
(*    as the calls in the source set them; what the Direct3D runtime does  *)
(*    with a conflicting request is not represented.                       *)
(*  - frameLog is a history variable: the GPU commands issued by the most  *)
(*    recent RenderScene, each with the bindings in force when it was      *)
(*    issued. It is emptied when the next UpdateScene begins.              *)
(***************************************************************************)
EXTENDS Integers, Sequences, FiniteSets, TLC

VARIABLES
    phase,                    \* which of the start-up / shutdown handlers have run
    initResult,               \* value returned by InitGeometry ("none" before the call)
    attempted,                \* creation steps InitGeometry attempted, in order
    live,                     \* objects created and not yet released
    gLastError,
    gCurrentPostProcess,
    lockFPS,
    Tint, Blur, GaussianBlur, Underwater, Retro, Bloom,
    blurStrength, blurCurve, bitColour, pixelSize,
    timer,
    wiggle,
    tintColour, tintColour2,
    gPostProcessingConstants, \* CPU-side constants structure
    gPostProcessingConstantBuffer, \* contents of the GPU constant buffer
    gD3DContext,
    frameLog,
    turn,                     \* the handler the frame loop calls next
    lapTime,                  \* the frame time of the iteration in progress
    elapsed                   \* history: total of the frame times of the frames rendered

vars == << phase, initResult, attempted, live, gLastError, gCurrentPostProcess,
           lockFPS, Tint, Blur, GaussianBlur, Underwater, Retro, Bloom,
           blurStrength, blurCurve, bitColour, pixelSize, timer, wiggle,
           tintColour, tintColour2, gPostProcessingConstants,
           gPostProcessingConstantBuffer, gD3DContext, frameLog, turn, lapTime,
           elapsed >>

loopVars == << turn, lapTime, elapsed >>

startupVars == << phase, initResult, attempted, live, gLastError >>

inputVars == << gCurrentPostProcess, lockFPS, Tint, Blur, GaussianBlur,
                Underwater, Retro, Bloom, blurStrength, blurCurve, bitColour,
                pixelSize, tintColour, tintColour2 >>

renderVars == << timer, wiggle, gPostProcessingConstants,
                 gPostProcessingConstantBuffer, gD3DContext >>

-----------------------------------------------------------------------------
(* Bounds of the model *)

\* Largest total of frame times (and so of timer and of wiggle)
MaxTimer == 20

\* How far above their initial values the tunables may be raised
MaxRaise == 1

\* How many steps of 1.1 blurCurve may move away from its initial value
MaxCurveSteps == 1

-----------------------------------------------------------------------------
(* Scene data *)

PostProcess == {"None", "PyramidBlur", "Retro", "Spiral"}

InitialBlurStrength == 50
InitialBitColour == 90
InitialPixelSize == 10

MinBlurStrength == 5
MinBitColour == 1
MinPixelSize == 1

HueRate == 20
HueRate2 == 50
HueWrap == 360

\* The off-screen colour buffers and the swap chain's back buffer
ColourBuffers == {"Scene", "PostProcess", "Bloom"}

NullSRV == "null"

\* The three objects InitGeometry creates for each colour buffer
BufferObjects ==
    { "gSceneTexture", "gPostProcessTexture", "gBloomTexture",
      "gSceneRenderTarget", "gPostProcessRenderTarget", "gBloomRenderTarget",
      "gSceneTextureSRV", "gPostProcessTextureSRV", "gBloomTextureSRV" }

\* Creation steps of InitGeometry in program order; each earlier group of
\* objects (meshes, textures, ...) is one step
InitSteps ==
    << "Meshes", "Textures", "States", "Shaders", "ConstantBuffers",
       "gSceneTexture", "gPostProcessTexture", "gBloomTexture",
       "gSceneRenderTarget", "gPostProcessRenderTarget", "gBloomRenderTarget",
       "gSceneTextureSRV", "gPostProcessTextureSRV", "gBloomTextureSRV" >>

\* The message InitGeometry leaves in gLastError when a step fails
InitError(step) ==
    CASE step = "Meshes"          -> "Mesh load error"
      [] step = "Textures"        -> "Error loading textures"
      [] step = "States"          -> "Error creating states"
      [] step = "Shaders"         -> "Error loading shaders"
      [] step = "ConstantBuffers" -> "Error creating constant buffers"
      [] step \in {"gSceneTexture", "gPostProcessTexture", "gBloomTexture"}
                                  -> "Error creating scene texture"
      [] step \in {"gSceneRenderTarget", "gPostProcessRenderTarget",
                   "gBloomRenderTarget"}
                                  -> "Error creating scene render target view"
      [] OTHER                    -> "Error creating scene shader resource view"

\* Objects ReleaseResources releases or deletes
Released ==
    { "States", "gSceneTextureSRV", "gSceneRenderTarget", "gSceneTexture",
      "Textures", "ConstantBuffers", "Shaders", "Models", "Meshes" }

-----------------------------------------------------------------------------
(* Colour conversion *)

Min(f1, f2, f3) ==
    LET a == IF f2 < f1 THEN f2 ELSE f1
    IN  IF f3 < a THEN f3 ELSE a

Max(f1, f2, f3) ==
    LET a == IF f2 > f1 THEN f2 ELSE f1
    IN  IF f3 > a THEN f3 ELSE a

Abs(n) == IF n < 0 THEN -n ELSE n

\* RGB components are 0 or 1 here, so every division below is exact
RGBToHSL(rgb) ==
    LET fR == rgb.x
        fB == rgb.y
        fG == rgb.z
        min == Min(fR, fB, fG)
        max == Max(fR, fB, fG)
        L == 50 * (max + min)
        S == IF L < 50 THEN (100 * (max - min)) \div (max + min)
                       ELSE (100 * (max - min)) \div (2 - max - min)
        H0 == IF max = fR THEN (60 * (fG - fB)) \div (max - min)
              ELSE IF max = fG THEN (60 * (fB - fR)) \div (max - min) + 120
              ELSE (60 * (fR - fG)) \div (max - min) + 240
        H == IF H0 < 0 THEN H0 + 360 ELSE H0
    IN  IF min = max THEN [x |-> 0, y |-> 0, z |-> L]
                     ELSE [x |-> H, y |-> S, z |-> L]

\* Colour components are carried in units of 1/RGBUnit, which makes C, X and
\* m of the source exact integers
RGBUnit == 100 * 100 * 60 * 2

\* The branch of HSLToRGB's if-chain a hue takes (0 when it takes none)
HueSector(H) ==
    IF H >= 0 /\ H < 60 THEN 1
    ELSE IF H >= 60 /\ H < 120 THEN 2
    ELSE IF H >= 120 /\ H < 180 THEN 3
    ELSE IF H >= 180 /\ H < 240 THEN 4
    ELSE IF H >= 240 /\ H < 300 THEN 5
    ELSE IF H >= 300 /\ H < 360 THEN 6
    ELSE 0

HSLToRGB(hsl) ==
    LET H == hsl.x
        S == hsl.y
        L == hsl.z
        C == (100 - Abs(2 * L - 100)) * S * 120
        X == (100 - Abs(2 * L - 100)) * S * 2 * (60 - Abs((H % 120) - 60))
        m == L * 12000 - (100 - Abs(2 * L - 100)) * S * 60
        k == HueSector(H)
        Rt == IF k \in {1, 6} THEN C ELSE IF k \in {2, 5} THEN X ELSE 0
        Gt == IF k \in {2, 3} THEN C ELSE IF k \in {1, 4} THEN X ELSE 0
        Bt == IF k \in {4, 5} THEN C ELSE IF k \in {3, 6} THEN X ELSE 0
    IN  [x |-> Rt + m, y |-> Gt + m, z |-> Bt + m]

-----------------------------------------------------------------------------
(* Initial state: the globals as their initialisers leave them *)

Vec(a, b, c) == [x |-> a, y |-> b, z |-> c]

\* gPostProcessingConstants is a zero-initialised global. hWave and vWave are
\* carried in half seconds (vWave is timer / 2); spiralLevel, a cosine, is
\* not represented.
ZeroConstants ==
    [ tintColour |-> Vec(0, 0, 0), tintColour2 |-> Vec(0, 0, 0),
      blurBellcurveStrength |-> 0, blurRadius |-> 0,
      waterTintColour |-> Vec(0, 0, 0), waterTintColour2 |-> Vec(0, 0, 0),
      hWave |-> 0, vWave |-> 0,
      noiseScale |-> 0, bitColour |-> 0, brightFilterThreshold |-> 0 ]

Globals(selected) ==
    /\ phase = "start"
    /\ initResult = "none"
    /\ attempted = << >>
    /\ live = {}
    /\ gLastError = ""
    /\ gCurrentPostProcess = selected
    /\ lockFPS = TRUE
    /\ Tint = FALSE
    /\ Blur = FALSE
    /\ GaussianBlur = FALSE
    /\ Underwater = FALSE
    /\ Retro = FALSE
    /\ Bloom = FALSE
    /\ blurStrength = InitialBlurStrength
    /\ blurCurve = 0
    /\ bitColour = InitialBitColour
    /\ pixelSize = InitialPixelSize
    /\ timer = 0
    /\ wiggle = 0
    /\ tintColour = RGBToHSL(Vec(0, 1, 1))
    /\ tintColour2 = RGBToHSL(Vec(1, 1, 0))
    /\ gPostProcessingConstants = ZeroConstants
    /\ gPostProcessingConstantBuffer = [uploaded |-> FALSE, data |-> ZeroConstants]
    /\ gD3DContext = [rt |-> "null", ps |-> "null", srv0 |-> NullSRV, srv1 |-> NullSRV]
    /\ frameLog = << >>
    /\ turn = "UpdateScene"
    /\ lapTime = 0
    /\ elapsed = 0

Init == Globals("None")

-----------------------------------------------------------------------------
(* Start-up and shutdown *)

\* Fault variant of StepsAttempted: the failure of gBloomTexture's creation is
\* not acted on, as if its "return false" were missing
StepsAttemptedPastFailure(fails) ==
    LET bad == {i \in 1..Len(InitSteps) : InitSteps[i] \in fails \ {"gBloomTexture"}}
        last == IF bad = {} THEN Len(InitSteps)
                ELSE CHOOSE i \in bad : \A j \in bad : i <= j
    IN  SubSeq(InitSteps, 1, last)

\* The steps InitGeometry attempts when the steps in fails are the ones the
\* device rejects: every step up to and including the first that fails
StepsAttempted(fails) ==
    LET bad == {i \in 1..Len(InitSteps) : InitSteps[i] \in fails}
        last == IF bad = {} THEN Len(InitSteps)
                ELSE CHOOSE i \in bad : \A j \in bad : i <= j
    IN  SubSeq(InitSteps, 1, last)

InitGeometry(fails) ==
    LET tried == StepsAttempted(fails)
        failed == {i \in 1..Len(tried) : tried[i] \in fails}
    IN  /\ phase = "start"
        /\ attempted' = tried
        /\ live' = {tried[i] : i \in 1..Len(tried)} \ fails
        /\ initResult' = IF failed = {} THEN "true" ELSE "false"
        /\ gLastError' = IF failed = {} THEN gLastError
                         ELSE InitError(tried[Len(tried)])
        /\ phase' = IF failed = {} THEN "geometry" ELSE "failed"
        /\ UNCHANGED << inputVars, renderVars, frameLog, loopVars >>

InitScene ==
    /\ phase = "geometry"
    /\ Tint' = FALSE
    /\ Blur' = FALSE
    /\ GaussianBlur' = FALSE
    /\ Underwater' = FALSE
    /\ Retro' = FALSE
    /\ live' = live \cup {"Models"}
    /\ phase' = "running"
    /\ UNCHANGED << initResult, attempted, gLastError, gCurrentPostProcess,
                    lockFPS, Bloom, blurStrength, blurCurve, bitColour,
                    pixelSize, tintColour, tintColour2, renderVars, frameLog,
                    loopVars >>

ReleaseResources ==
    /\ phase \in {"failed", "running"}
    /\ live' = live \ Released
    /\ phase' = "released"
    /\ UNCHANGED << initResult, attempted, gLastError, inputVars, renderVars,
                    frameLog, loopVars >>

-----------------------------------------------------------------------------
(* GPU commands.  The calls a handler makes are a sequence of call records,
   in program order; Exec gives the effect of one call on a device state s,
   which carries the requested bindings (rt, ps, srv0, srv1), the CPU
   constants structure cb, the GPU constant buffer gpu, the commands issued
   so far (log), and timer and wiggle. *)

Call(name, slot, arg) == [call |-> name, slot |-> slot, arg |-> arg]

OMSetRenderTargets(target) == Call("OMSetRenderTargets", 0, target)

PSSetShader(shader) == Call("PSSetShader", 0, shader)

PSSetShaderResources(slot, view) == Call("PSSetShaderResources", slot, view)

UpdateConstantBuffer == Call("UpdateConstantBuffer", 0, "gPostProcessingConstants")

\* gD3DContext->Draw(4, 0): the full-screen quad
Draw == Call("Draw", 0, "quad")

ClearRenderTargetView(target) == Call("Clear", 0, target)

\* Model::Render of one scene model
Render(model) == Call("Render", 0, model)

Present(syncInterval) == Call("Present", 0, syncInterval)

\* An assignment to timer, to wiggle or to fields of gPostProcessingConstants
Assign(field) == Call("Assign", 0, field)

\* Texture slots a post-process shader samples: the combine shader samples
\* slots 0 and 1, every other one slot 0
SlotsRead(shader) == IF shader = "gCombine_PostProcess" THEN {0, 1} ELSE {0}

\* Render targets whose image the device state follows
Targets == ColourBuffers \cup {"BackBuffer"}

\* An image is the sequence of operations that produced it. What a target
\* holds when a frame begins was left there by earlier frames.
StaleImages == [b \in Targets |-> << "stale" >>]

\* The image a shader samples through a bound view
ImageOf(s, view) == IF view \in ColourBuffers THEN s.img[view] ELSE << view >>

\* The image a full-screen draw leaves in the render target: the copy shader
\* hands on what slot 0 holds, every other shader applies itself to the
\* images in the slots it samples
DrawResult(s) ==
    IF s.ps = "gCopy_PostProcess" THEN ImageOf(s, s.srv0)
    ELSE IF 1 \in SlotsRead(s.ps)
         THEN ImageOf(s, s.srv0) \o ImageOf(s, s.srv1) \o << s.ps >>
         ELSE ImageOf(s, s.srv0) \o << s.ps >>

\* One entry of the command log: the command, its argument, the bindings
\* and GPU constants in force when it is issued, and the images in the two
\* pixel-shader slots
Command(s, c) ==
    [ op |-> c.call, arg |-> c.arg, rt |-> s.rt, ps |-> s.ps,
      srv0 |-> s.srv0, srv1 |-> s.srv1, cb |-> s.gpu,
      in0 |-> ImageOf(s, s.srv0), in1 |-> ImageOf(s, s.srv1) ]

AssignConstants(s, field, frameTime) ==
    CASE field = "timer"  -> [s EXCEPT !.timer = @ + frameTime]
      [] field = "wiggle" -> [s EXCEPT !.wiggle = @ + frameTime]
      [] field = "blur"   -> [s EXCEPT !.cb.blurBellcurveStrength = blurCurve,
                                       !.cb.blurRadius = blurStrength]
      [] field = "tint"   -> [s EXCEPT !.cb.tintColour = HSLToRGB(tintColour),
                                       !.cb.tintColour2 = HSLToRGB(tintColour2)]
      [] field = "water"  -> [s EXCEPT !.cb.waterTintColour = Vec(0, RGBUnit, RGBUnit),
                                       !.cb.waterTintColour2 = Vec(0, RGBUnit \div 2, RGBUnit),
                                       !.cb.hWave = 2 * s.timer,
                                       !.cb.vWave = s.timer]
      [] field = "noiseScale" -> [s EXCEPT !.cb.noiseScale = pixelSize]
      [] field = "bitColour"  -> [s EXCEPT !.cb.bitColour = bitColour]
      [] field = "brightFilterThreshold"
                          -> [s EXCEPT !.cb.brightFilterThreshold = (7 * RGBUnit) \div 10]

Exec(s, c, frameTime) ==
    CASE c.call = "OMSetRenderTargets" -> [s EXCEPT !.rt = c.arg]
      [] c.call = "PSSetShader" -> [s EXCEPT !.ps = c.arg]
      [] c.call = "PSSetShaderResources" ->
            IF c.slot = 0 THEN [s EXCEPT !.srv0 = c.arg] ELSE [s EXCEPT !.srv1 = c.arg]
      [] c.call = "UpdateConstantBuffer" ->
            [s EXCEPT !.gpu = [uploaded |-> TRUE, data |-> s.cb]]
      [] c.call = "Assign" -> AssignConstants(s, c.arg, frameTime)
      [] c.call = "Clear" ->
            [s EXCEPT !.log = Append(@, Command(s, c)),
                      !.img[c.arg] = << "background" >>]
      [] c.call = "Render" ->
            [s EXCEPT !.log = Append(@, Command(s, c)),
                      !.img[s.rt] = Append(@, c.arg)]
      [] c.call = "Draw" ->
            [s EXCEPT !.log = Append(@, Command(s, c)),
                      !.img[s.rt] = DrawResult(s)]
      [] OTHER -> [s EXCEPT !.log = Append(@, Command(s, c))]

\* The device state after calls[lo..hi], executed in order from state s
RECURSIVE Run(_, _, _, _, _)
Run(s, calls, lo, hi, frameTime) ==
    IF lo > hi THEN s
    ELSE IF lo = hi THEN Exec(s, calls[lo], frameTime)
    ELSE LET mid == (lo + hi) \div 2
         IN  CHOOSE r \in {Run(t, calls, mid + 1, hi, frameTime) :
                              t \in {Run(s, calls, lo, mid, frameTime)}} : TRUE

-----------------------------------------------------------------------------
(* Scene rendering *)

RenderSceneFromCamera ==
    << PSSetShader("gPixelLightingPixelShader"),
       PSSetShaderResources(0, "gGroundDiffuseSpecularMapSRV"), Render("gGround"),
       PSSetShaderResources(0, "gCrateDiffuseSpecularMapSRV"), Render("gCrate"),
       PSSetShaderResources(0, "gCubeDiffuseSpecularMapSRV"), Render("gCube"),
       PSSetShader("gTintedTexturePixelShader"),
       PSSetShaderResources(0, "gStarsDiffuseSpecularMapSRV"), Render("gStars"),
       PSSetShader("gTintedTexturePixelShader"),
       PSSetShaderResources(0, "gLightDiffuseMapSRV"),
       Render("gLights[0]"), Render("gLights[1]") >>

\* Fault variant of RenderAndReset: the copy shader is not selected, so the
\* second draw runs the effect shader again
RenderAndResetKeepsShader ==
    << UpdateConstantBuffer, Draw, PSSetShaderResources(0, NullSRV),
       OMSetRenderTargets("Scene"),
       PSSetShaderResources(0, "PostProcess"),
       UpdateConstantBuffer, Draw, PSSetShaderResources(0, NullSRV) >>

\* Draws the quad with the bindings the caller set up, then copies the
\* post-process texture back to the scene texture
RenderAndReset ==
    << UpdateConstantBuffer, Draw, PSSetShaderResources(0, NullSRV),
       OMSetRenderTargets("Scene"),
       PSSetShader("gCopy_PostProcess"),
       PSSetShaderResources(0, "PostProcess"),
       UpdateConstantBuffer, Draw, PSSetShaderResources(0, NullSRV) >>

\* "Draw and reset - no copy" of the Bloom branch
DrawAndReset ==
    << UpdateConstantBuffer, Draw, PSSetShaderResources(0, NullSRV) >>

\* Fault variant of TintPass: the tinted image is not copied back to the
\* scene texture
TintPassNoCopy ==
    << OMSetRenderTargets("PostProcess"),
       Assign("tint"),
       PSSetShader("gTintPostProcess"),
       PSSetShaderResources(0, "Scene") >> \o DrawAndReset

TintPass ==
    << OMSetRenderTargets("PostProcess"),
       Assign("tint"),
       PSSetShader("gTintPostProcess"),
       PSSetShaderResources(0, "Scene") >> \o RenderAndReset

\* Fault variant of GaussianBlurPasses: the horizontal pass is not copied
\* back to the scene texture before the vertical pass
GaussianBlurPassesNoCopy ==
    << OMSetRenderTargets("PostProcess"),
       Assign("blur"),
       PSSetShader("gGaussianBlurH_PostProcess"),
       PSSetShaderResources(0, "Scene") >> \o DrawAndReset \o
    << OMSetRenderTargets("PostProcess"),
       PSSetShader("gGaussianBlurV_PostProcess"),
       PSSetShaderResources(0, "Scene") >> \o RenderAndReset

GaussianBlurPasses ==
    << OMSetRenderTargets("PostProcess"),
       Assign("blur"),
       PSSetShader("gGaussianBlurH_PostProcess"),
       PSSetShaderResources(0, "Scene") >> \o RenderAndReset \o
    << OMSetRenderTargets("PostProcess"),
       PSSetShader("gGaussianBlurV_PostProcess"),
       PSSetShaderResources(0, "Scene") >> \o RenderAndReset

BlurPass ==
    << OMSetRenderTargets("PostProcess"),
       Assign("blur"),
       PSSetShader("gBlur_PostProcess"),
       PSSetShaderResources(0, "Scene") >> \o RenderAndReset

UnderwaterPass ==
    << OMSetRenderTargets("PostProcess"),
       Assign("water"),
       PSSetShader("gUnderwater_PostProcess"),
       PSSetShaderResources(0, "Scene") >> \o RenderAndReset

\* Fault variant of RetroPasses: the bit-colour pass placed before the
\* pixellate pass
RetroPassesPosterizeFirst ==
    << OMSetRenderTargets("PostProcess"),
       Assign("bitColour"),
       PSSetShader("gBitColour_PostProcess"),
       PSSetShaderResources(0, "Scene") >> \o RenderAndReset \o
    << OMSetRenderTargets("PostProcess"),
       Assign("noiseScale"),
       PSSetShader("gPixellate_PostProcess"),
       PSSetShaderResources(0, "Scene") >> \o RenderAndReset

RetroPasses ==
    << OMSetRenderTargets("PostProcess"),
       Assign("noiseScale"),
       PSSetShader("gPixellate_PostProcess"),
       PSSetShaderResources(0, "Scene") >> \o RenderAndReset \o
    << OMSetRenderTargets("PostProcess"),
       Assign("bitColour"),
       PSSetShader("gBitColour_PostProcess"),
       PSSetShaderResources(0, "Scene") >> \o RenderAndReset

\* Fault variant of BloomPasses: the horizontal blur is sent to the scene
\* texture, overwriting the image the combine pass needs
BloomPassesViaScene ==
    << OMSetRenderTargets("Bloom"),
       Assign("brightFilterThreshold"),
       PSSetShader("gBrightFilter_PostProcess"),
       PSSetShaderResources(0, "Scene") >> \o DrawAndReset \o
    << OMSetRenderTargets("Scene"),
       Assign("blur"),
       PSSetShader("gGaussianBlurH_PostProcess"),
       PSSetShaderResources(0, "Bloom") >> \o DrawAndReset \o
    << OMSetRenderTargets("Bloom"),
       PSSetShader("gGaussianBlurV_PostProcess"),
       PSSetShaderResources(0, "Scene") >> \o DrawAndReset \o
    << OMSetRenderTargets("PostProcess"),
       PSSetShader("gCombine_PostProcess"),
       PSSetShaderResources(0, "Bloom"),
       PSSetShaderResources(1, "Scene") >> \o RenderAndReset

BloomPasses ==
    << OMSetRenderTargets("Bloom"),
       Assign("brightFilterThreshold"),
       PSSetShader("gBrightFilter_PostProcess"),
       PSSetShaderResources(0, "Scene") >> \o DrawAndReset \o
    << OMSetRenderTargets("PostProcess"),
       Assign("blur"),
       PSSetShader("gGaussianBlurH_PostProcess"),
       PSSetShaderResources(0, "Bloom") >> \o DrawAndReset \o
    << OMSetRenderTargets("Bloom"),
       PSSetShader("gGaussianBlurV_PostProcess"),
       PSSetShaderResources(0, "PostProcess") >> \o DrawAndReset \o
    << OMSetRenderTargets("PostProcess"),
       PSSetShader("gCombine_PostProcess"),
       PSSetShaderResources(0, "Bloom"),
       PSSetShaderResources(1, "Scene") >> \o RenderAndReset

SpiralBranch ==
    << PSSetShader("gNoise_PostProcess"), Assign("wiggle") >>

PyramidBlurPass ==
    << OMSetRenderTargets("PostProcess"),
       PSSetShader("gPyramidBlur_PostProcess"),
       PSSetShaderResources(0, "Scene") >> \o RenderAndReset

CopyToBackBuffer ==
    << OMSetRenderTargets("BackBuffer"),
       PSSetShader("gCopy_PostProcess"),
       PSSetShaderResources(0, "Scene"),
       Draw,
       PSSetShaderResources(0, NullSRV) >>

\* The if / else-if chain that starts at "if (Bloom)"
BloomOrSelected ==
    IF Bloom THEN BloomPasses
    ELSE IF gCurrentPostProcess = "Spiral" THEN SpiralBranch
    ELSE IF gCurrentPostProcess = "PyramidBlur" THEN PyramidBlurPass
    ELSE << >>

\* Fault variant of PostProcessing: the Blur block placed before the
\* GaussianBlur block
PostProcessingBlurFirst ==
    << Assign("timer"), Assign("blur") >>
    \o (IF Tint THEN TintPass ELSE << >>)
    \o (IF Blur THEN BlurPass ELSE << >>)
    \o (IF GaussianBlur THEN GaussianBlurPasses ELSE << >>)
    \o (IF Underwater THEN UnderwaterPass ELSE << >>)
    \o (IF Retro THEN RetroPasses ELSE << >>)
    \o BloomOrSelected
    \o CopyToBackBuffer

PostProcessing ==
    << Assign("timer"), Assign("blur") >>
    \o (IF Tint THEN TintPass ELSE << >>)
    \o (IF GaussianBlur THEN GaussianBlurPasses ELSE << >>)
    \o (IF Blur THEN BlurPass ELSE << >>)
    \o (IF Underwater THEN UnderwaterPass ELSE << >>)
    \o (IF Retro THEN RetroPasses ELSE << >>)
    \o BloomOrSelected
    \o CopyToBackBuffer

\* Fault variant of RenderOffscreen: the test of gCurrentPostProcess inverted
RenderOffscreenInverted ==
    \/ gCurrentPostProcess = "None"
    \/ Tint
    \/ Blur
    \/ GaussianBlur
    \/ Underwater
    \/ Retro
    \/ Bloom

\* The condition under which RenderScene renders the scene off-screen
RenderOffscreen ==
    \/ gCurrentPostProcess # "None"
    \/ Tint
    \/ Blur
    \/ GaussianBlur
    \/ Underwater
    \/ Retro
    \/ Bloom

\* Fault variant of RunPostProcessing: Bloom left out of the condition
RunPostProcessingWithoutBloom ==
    \/ gCurrentPostProcess # "None"
    \/ Tint
    \/ Blur
    \/ GaussianBlur
    \/ Underwater
    \/ Retro

\* The condition under which RenderScene calls PostProcessing
RunPostProcessing ==
    \/ gCurrentPostProcess # "None"
    \/ Tint
    \/ Blur
    \/ GaussianBlur
    \/ Underwater
    \/ Retro
    \/ Bloom

\* Fault variant of SceneTarget: the scene rendered into the post-process
\* texture
SceneTargetPostProcess == IF RenderOffscreen THEN "PostProcess" ELSE "BackBuffer"

SceneTarget == IF RenderOffscreen THEN "Scene" ELSE "BackBuffer"

RenderSceneCalls ==
    << OMSetRenderTargets(SceneTarget), ClearRenderTargetView(SceneTarget) >>
    \o RenderSceneFromCamera
    \o (IF RunPostProcessing THEN PostProcessing ELSE << >>)
    \o << Present(IF lockFPS THEN "1" ELSE "0") >>

\* Fault variant of RenderScene: a frame that ran Bloom switches it off
RenderSceneClearsBloom(frameTime) ==
    LET s == [ rt |-> gD3DContext.rt, ps |-> gD3DContext.ps,
               srv0 |-> gD3DContext.srv0, srv1 |-> gD3DContext.srv1,
               cb |-> gPostProcessingConstants,
               gpu |-> gPostProcessingConstantBuffer,
               log |-> << >>, timer |-> timer, wiggle |-> wiggle,
               img |-> StaleImages ]
        r == Run(s, RenderSceneCalls, 1, Len(RenderSceneCalls), frameTime)
    IN  /\ phase = "running"
        /\ r.timer <= MaxTimer
        /\ r.wiggle <= MaxTimer
        /\ gD3DContext' = [rt |-> r.rt, ps |-> r.ps, srv0 |-> r.srv0, srv1 |-> r.srv1]
        /\ gPostProcessingConstants' = r.cb
        /\ gPostProcessingConstantBuffer' = r.gpu
        /\ timer' = r.timer
        /\ wiggle' = r.wiggle
        /\ frameLog' = r.log
        /\ Bloom' = FALSE
        /\ UNCHANGED << startupVars, gCurrentPostProcess, lockFPS, Tint, Blur,
                        GaussianBlur, Underwater, Retro, blurStrength, blurCurve,
                        bitColour, pixelSize, tintColour, tintColour2 >>

RenderScene(frameTime) ==
    LET s == [ rt |-> gD3DContext.rt, ps |-> gD3DContext.ps,
               srv0 |-> gD3DContext.srv0, srv1 |-> gD3DContext.srv1,
               cb |-> gPostProcessingConstants,
               gpu |-> gPostProcessingConstantBuffer,
               log |-> << >>, timer |-> timer, wiggle |-> wiggle,
               img |-> StaleImages ]
        r == Run(s, RenderSceneCalls, 1, Len(RenderSceneCalls), frameTime)
    IN  /\ phase = "running"
        /\ r.timer <= MaxTimer
        /\ r.wiggle <= MaxTimer
        /\ gD3DContext' = [rt |-> r.rt, ps |-> r.ps, srv0 |-> r.srv0, srv1 |-> r.srv1]
        /\ gPostProcessingConstants' = r.cb
        /\ gPostProcessingConstantBuffer' = r.gpu
        /\ timer' = r.timer
        /\ wiggle' = r.wiggle
        /\ frameLog' = r.log
        /\ UNCHANGED << startupVars, inputVars >>

-----------------------------------------------------------------------------
(* Scene update *)

ToggleKeys == {"Key_1", "Key_F1", "Key_2", "Key_3", "Key_4", "Key_5"}

\* A hue after frameTime seconds at the given rate
HueAfter(hue, rate, frameTime) ==
    LET h == hue + frameTime * rate
    IN  IF h > HueWrap THEN 0 ELSE h

Toggled(flag, key, hit) == IF key \in hit THEN ~flag ELSE flag

BlurStrengthAfter(v, held) ==
    LET a == IF "Key_Comma" \in held THEN v - 1 ELSE v
        b == IF "Key_Period" \in held THEN a + 1 ELSE a
    IN  IF b < MinBlurStrength THEN MinBlurStrength ELSE b

\* blurCurve is carried as the exponent n of 0.03 * 1.1^n
BlurCurveAfter(n, held) ==
    LET a == IF "Key_K" \in held THEN n - 1 ELSE n
    IN  IF "Key_L" \in held THEN a + 1 ELSE a

\* Fault variant of BitColourAfter: the clamp placed before the decrement
BitColourClampFirst(v, held) ==
    LET a == IF v < MinBitColour THEN MinBitColour ELSE v
        b == IF "Key_V" \in held THEN a - 1 ELSE a
    IN  IF "Key_B" \in held THEN b + 1 ELSE b

BitColourAfter(v, held) ==
    LET a == IF "Key_V" \in held THEN v - 1 ELSE v
        b == IF a < MinBitColour THEN MinBitColour ELSE a
    IN  IF "Key_B" \in held THEN b + 1 ELSE b

PixelSizeAfter(v, held) ==
    LET a == IF "Key_F" \in held THEN v - 1 ELSE v
        b == IF a < MinPixelSize THEN MinPixelSize ELSE a
    IN  IF "Key_G" \in held THEN b + 1 ELSE b

\* Fault variant of SelectedAfter: the disabled Key_5 binding to the spiral
\* effect is live
SelectedAfterSpiralKey(selected, hit) ==
    IF "Key_0" \in hit THEN "None"
    ELSE IF "Key_5" \in hit THEN "Spiral" ELSE selected

\* The selected effect after the keys hit: only Key_0 is bound, the binding
\* of Key_5 to the spiral effect being commented out
SelectedAfter(selected, hit) ==
    IF "Key_0" \in hit THEN "None" ELSE selected

UpdateScene(frameTime, hit, held) ==
    /\ phase = "running"
    /\ BlurStrengthAfter(blurStrength, held) <= InitialBlurStrength + MaxRaise
    /\ BitColourAfter(bitColour, held) <= InitialBitColour + MaxRaise
    /\ PixelSizeAfter(pixelSize, held) <= InitialPixelSize + MaxRaise
    /\ BlurCurveAfter(blurCurve, held) \in -MaxCurveSteps..MaxCurveSteps
    /\ tintColour' = [tintColour EXCEPT !.x = HueAfter(@, HueRate, frameTime)]
    /\ tintColour2' = [tintColour2 EXCEPT !.x = HueAfter(@, HueRate2, frameTime)]
    /\ Tint' = Toggled(Tint, "Key_1", hit)
    /\ Blur' = Toggled(Blur, "Key_F1", hit)
    /\ GaussianBlur' = Toggled(GaussianBlur, "Key_2", hit)
    /\ Underwater' = Toggled(Underwater, "Key_3", hit)
    /\ Retro' = Toggled(Retro, "Key_4", hit)
    /\ Bloom' = Toggled(Bloom, "Key_5", hit)
    /\ gCurrentPostProcess' = SelectedAfter(gCurrentPostProcess, hit)
    /\ blurStrength' = BlurStrengthAfter(blurStrength, held)
    /\ blurCurve' = BlurCurveAfter(blurCurve, held)
    /\ bitColour' = BitColourAfter(bitColour, held)
    /\ pixelSize' = PixelSizeAfter(pixelSize, held)
    /\ lockFPS' = Toggled(lockFPS, "Key_P", hit)
    /\ frameLog' = << >>
    /\ UNCHANGED << startupVars, renderVars >>

-----------------------------------------------------------------------------
(* Specifications *)

\* The frame loop: each iteration measures one frame time and passes it to
\* UpdateScene and then to RenderScene; the loop is left between iterations
UpdateStep(frameTime, hit, held) ==
    /\ turn = "UpdateScene"
    /\ elapsed + frameTime <= MaxTimer
    /\ UpdateScene(frameTime, hit, held)
    /\ turn' = "RenderScene"
    /\ lapTime' = frameTime
    /\ elapsed' = elapsed

RenderStep ==
    /\ turn = "RenderScene"
    /\ RenderScene(lapTime)
    /\ turn' = "UpdateScene"
    /\ lapTime' = 0
    /\ elapsed' = elapsed + lapTime

Shutdown ==
    /\ turn = "UpdateScene"
    /\ ReleaseResources

\* How many creation steps the device may reject in one start-up
MaxFailures == 2

FailureSets ==
    {f \in SUBSET {InitSteps[i] : i \in 1..Len(InitSteps)} : Cardinality(f) <= MaxFailures}

\* Frame times of the main specification: a frame too short to measure, and
\* a long stall after which both hues have wrapped
FrameTimes == {0, 20}

\* How many keys may be hit in the same frame
MaxKeysHit == 1

HitSets ==
    {h \in SUBSET (ToggleKeys \cup {"Key_0", "Key_P"}) : Cardinality(h) <= MaxKeysHit}

Next ==
    \/ \E rejected \in FailureSets : InitGeometry(rejected)
    \/ InitScene
    \/ \E ft \in FrameTimes, keys \in HitSets : UpdateStep(ft, keys, {})
    \/ RenderStep
    \/ Shutdown

Spec == Init /\ [][Next]_vars

\* Tunables.  The three clamped tunables are updated by three independent
\* blocks of UpdateScene, so holding their keys together exercises for each
\* of them every combination of its two keys. Retro is switched on and left on.
DecrementKeys == {"Key_Comma", "Key_V", "Key_F"}

IncrementKeys == {"Key_Period", "Key_B", "Key_G"}

HeldSets ==
    { {}, DecrementKeys, IncrementKeys, DecrementKeys \cup IncrementKeys }

\* A frame time of zero (two laps within the timer's resolution) leaves the
\* hues and the timer where they are
NextTunables ==
    \/ \E rejected \in {{}} : InitGeometry(rejected)
    \/ InitScene
    \/ \E keys \in {{}, {"Key_4"}}, held \in HeldSets :
          /\ Retro => keys = {}
          /\ UpdateStep(0, keys, held)
    \/ RenderStep
    \/ Shutdown

SpecTunables == Init /\ [][NextTunables]_vars

\* Hues: frame times of three seconds and of a nine-second stall
HueFrameTimes == {3, 9}

CurveKeys == {{}, {"Key_K"}, {"Key_L"}, {"Key_K", "Key_L"}}

NextHue ==
    \/ \E rejected \in {{}} : InitGeometry(rejected)
    \/ InitScene
    \/ \E ft \in HueFrameTimes, keys \in {{}, {"Key_1"}} : UpdateStep(ft, keys, {})
    \/ RenderStep
    \/ Shutdown

SpecHue == Init /\ [][NextHue]_vars

\* Selection: PostProcessing for every value of gCurrentPostProcess, which
\* the initialiser sets and no key changes except back to None
InitSelect == \E selected \in PostProcess : Globals(selected)

NextSelect ==
    \/ \E rejected \in {{}} : InitGeometry(rejected)
    \/ InitScene
    \/ \E ft \in FrameTimes, keys \in {{}, {"Key_1"}, {"Key_4"}, {"Key_5"}, {"Key_0"}} :
          \E held \in CurveKeys : UpdateStep(ft, keys, held)
    \/ RenderStep
    \/ Shutdown

SpecSelect == InitSelect /\ [][NextSelect]_vars

-----------------------------------------------------------------------------
(* Properties of the command log *)

AnyFlag == Tint \/ Blur \/ GaussianBlur \/ Underwater \/ Retro \/ Bloom

IsDraw(e) == e.op = "Draw"

\* The full-screen draws of a frame, in the order issued
Draws(log) == SelectSeq(log, IsDraw)

\* Buffers a draw reads, in slot order
Sources(e) == IF 1 \in SlotsRead(e.ps) THEN << e.srv0, e.srv1 >> ELSE << e.srv0 >>

Pass(shader, sources, target) ==
    [shader |-> shader, sources |-> sources, target |-> target]

\* The passes of a frame as (shader, sources, target)
PassSequence(log) ==
    [i \in 1..Len(Draws(log)) |->
        Pass(Draws(log)[i].ps, Sources(Draws(log)[i]), Draws(log)[i].rt)]

CopyBack == Pass("gCopy_PostProcess", << "PostProcess" >>, "Scene")

\* One effect pass from the scene texture, and the copy back to it
EffectPass(shader) == << Pass(shader, << "Scene" >>, "PostProcess"), CopyBack >>

\* The pass sequence of an enabled set, effects in the order Tint,
\* GaussianBlur, Blur, Underwater, Retro, Bloom
CanonicalPasses(tint, gaussian, blur, underwater, retro, bloom) ==
    (IF tint THEN EffectPass("gTintPostProcess") ELSE << >>)
    \o (IF gaussian THEN EffectPass("gGaussianBlurH_PostProcess")
                         \o EffectPass("gGaussianBlurV_PostProcess") ELSE << >>)
    \o (IF blur THEN EffectPass("gBlur_PostProcess") ELSE << >>)
    \o (IF underwater THEN EffectPass("gUnderwater_PostProcess") ELSE << >>)
    \o (IF retro THEN EffectPass("gPixellate_PostProcess")
                      \o EffectPass("gBitColour_PostProcess") ELSE << >>)
    \o (IF bloom THEN << Pass("gBrightFilter_PostProcess", << "Scene" >>, "Bloom"),
                         Pass("gGaussianBlurH_PostProcess", << "Bloom" >>, "PostProcess"),
                         Pass("gGaussianBlurV_PostProcess", << "PostProcess" >>, "Bloom"),
                         Pass("gCombine_PostProcess", << "Bloom", "Scene" >>, "PostProcess"),
                         CopyBack >>
                 ELSE << >>)
    \o << Pass("gCopy_PostProcess", << "Scene" >>, "BackBuffer") >>

\* C1 (as stated): at every full-screen draw of a frame, the buffer bound as
\* render target is bound to neither pixel-shader slot 0 nor slot 1.
C1_NoAliasing ==
    \A i \in 1..Len(frameLog) :
        IsDraw(frameLog[i]) => frameLog[i].rt \notin {frameLog[i].srv0, frameLog[i].srv1}

\* C2: the passes a frame issues are a function of the enabled set alone,
\* whatever toggle history produced it: they are the canonical sequence of
\* that set, effects in the order Tint, GaussianBlur, Blur, Underwater,
\* Retro, Bloom.
C2_PassesOfEnabledSet ==
    (frameLog # << >> /\ AnyFlag) =>
        PassSequence(frameLog) =
            CanonicalPasses(Tint, GaussianBlur, Blur, Underwater, Retro, Bloom)

\* A frame with Tint and Bloom on, rendered after Retro was switched on,
\* rendered and switched off again
C2_Witness ==
    /\ frameLog # << >>
    /\ Tint /\ Bloom /\ ~Retro
    /\ gPostProcessingConstants.noiseScale # 0
    /\ Len(Draws(frameLog)) = 8

\* C3: a frame rendered with no effect enabled issues no full-screen draw,
\* clears and renders the scene in the back buffer, and ends with Present.
C3_ZeroEffectFastPath ==
    (frameLog # << >> /\ ~AnyFlag /\ gCurrentPostProcess = "None") =>
        /\ Draws(frameLog) = << >>
        /\ \A i \in 1..Len(frameLog) :
              frameLog[i].op \in {"Clear", "Render"} => frameLog[i].rt = "BackBuffer"
        /\ \E i \in 1..Len(frameLog) : frameLog[i].op = "Render"
        /\ frameLog[Len(frameLog)].op = "Present"

\* A no-effect frame rendered after effect frames
C3_Witness ==
    /\ frameLog # << >>
    /\ ~AnyFlag
    /\ timer > 0
    /\ Draws(frameLog) = << >>
    /\ gD3DContext.rt = "BackBuffer"

\* C4: blurStrength is never below 5 and bitColour and pixelSize never below
\* 1, and so are the values of them in the constant buffer at every draw
\* that follows their assignment: blurRadius at every draw, noiseScale from
\* the pixellate pass on, bitColour from the bit-colour pass on.
C4_ParameterClamps ==
    /\ blurStrength >= MinBlurStrength
    /\ bitColour >= MinBitColour
    /\ pixelSize >= MinPixelSize
    /\ \A i \in 1..Len(frameLog) :
          IsDraw(frameLog[i]) =>
             /\ frameLog[i].cb.uploaded
             /\ frameLog[i].cb.data.blurRadius >= MinBlurStrength
             /\ (\E j \in 1..i : frameLog[j].ps = "gPixellate_PostProcess")
                   => frameLog[i].cb.data.noiseScale >= MinPixelSize
             /\ (\E j \in 1..i : frameLog[j].ps = "gBitColour_PostProcess")
                   => frameLog[i].cb.data.bitColour >= MinBitColour

\* A Retro frame rendered with the three tunables driven down to their minima
C4_Witness ==
    /\ Retro
    /\ blurStrength = MinBlurStrength
    /\ bitColour = MinBitColour
    /\ pixelSize = MinPixelSize
    /\ \E i \in 1..Len(frameLog) :
          /\ IsDraw(frameLog[i])
          /\ frameLog[i].ps = "gBitColour_PostProcess"
          /\ frameLog[i].cb.data.blurRadius = MinBlurStrength
          /\ frameLog[i].cb.data.noiseScale = MinPixelSize
          /\ frameLog[i].cb.data.bitColour = MinBitColour

\* C5 (as stated): both stored hues lie in [0, 360), so each falls in one of
\* the six sectors of HSLToRGB.
C5_HueRange ==
    /\ tintColour.x >= 0 /\ tintColour.x < HueWrap
    /\ tintColour2.x >= 0 /\ tintColour2.x < HueWrap
    /\ HueSector(tintColour.x) # 0
    /\ HueSector(tintColour2.x) # 0

\* C6 (as stated): once ReleaseResources has returned, none of the nine
\* colour-buffer objects InitGeometry created is still held.
C6_BuffersReleased ==
    phase = "released" => live \cap BufferObjects = {}

\* C7: when a creation step fails, InitGeometry returns false with gLastError
\* set and the failed step is the last it attempted; it returns true only
\* with all nine colour-buffer objects created.
C7_AllocationFailureFatal ==
    /\ phase \in {"failed", "geometry"} =>
          \A i \in 1..Len(attempted) :
              attempted[i] \notin live =>
                 /\ i = Len(attempted)
                 /\ initResult = "false"
                 /\ gLastError = InitError(attempted[i])
                 /\ gLastError # ""
    /\ initResult = "false" => phase \in {"failed", "released"}
    /\ (initResult = "true" /\ phase \in {"geometry", "running"}) =>
          /\ attempted = InitSteps
          /\ BufferObjects \subseteq live

\* Start-up stopped by the post-process render-target view, the scene and
\* bloom textures already created
C7_Witness ==
    /\ phase = "failed"
    /\ initResult = "false"
    /\ attempted[Len(attempted)] = "gPostProcessRenderTarget"
    /\ "gPostProcessRenderTarget" \notin live
    /\ {"gSceneTexture", "gBloomTexture", "gSceneRenderTarget"} \subseteq live
    /\ gLastError = "Error creating scene render target view"

\* C8 (as stated): when a frame's post-processing has returned, no colour
\* buffer is bound to pixel-shader slot 0 or slot 1.
C8_SourcesUnbound ==
    (frameLog # << >> /\ Draws(frameLog) # << >>) =>
        /\ gD3DContext.srv0 \notin ColourBuffers
        /\ gD3DContext.srv1 \notin ColourBuffers

\* The four Bloom draws start at entry i of the log
BloomRouting(log, i) ==
    /\ i + 3 <= Len(log)
    /\ \A k \in i..(i + 3) : IsDraw(log[k]) /\ log[k].rt # "Scene"
    /\ log[i].ps = "gBrightFilter_PostProcess"
    /\ log[i].srv0 = "Scene" /\ log[i].rt = "Bloom"
    /\ log[i + 1].ps = "gGaussianBlurH_PostProcess"
    /\ log[i + 1].srv0 = "Bloom" /\ log[i + 1].rt = "PostProcess"
    /\ log[i + 2].ps = "gGaussianBlurV_PostProcess"
    /\ log[i + 2].srv0 = "PostProcess" /\ log[i + 2].rt = "Bloom"
    /\ log[i + 3].ps = "gCombine_PostProcess"
    /\ log[i + 3].srv0 = "Bloom" /\ log[i + 3].srv1 = "Scene"
    /\ log[i + 3].rt = "PostProcess"

\* C9: a frame rendered with Bloom on issues the bright filter once, reading
\* the scene texture into the bloom texture, followed at once by the
\* horizontal blur (bloom to post-process), the vertical blur (post-process to
\* bloom) and the combine (bloom and scene to post-process), none of the four
\* writing the scene texture.
C9_BloomRouting ==
    (frameLog # << >> /\ Bloom) =>
        /\ Cardinality({i \in 1..Len(frameLog) :
                           frameLog[i].ps = "gBrightFilter_PostProcess"}) = 1
        /\ \A i \in 1..Len(frameLog) :
              frameLog[i].ps = "gBrightFilter_PostProcess" => BloomRouting(frameLog, i)

\* A Bloom frame with GaussianBlur also on
C9_Witness ==
    /\ frameLog # << >>
    /\ Bloom /\ GaussianBlur
    /\ \E i \in 1..Len(frameLog) : BloomRouting(frameLog, i)

-----------------------------------------------------------------------------
(* Properties of the images *)

EffectOrder == << "Tint", "GaussianBlur", "Blur", "Underwater", "Retro", "Bloom" >>

IsEnabled(effect) ==
    CASE effect = "Tint"         -> Tint
      [] effect = "GaussianBlur" -> GaussianBlur
      [] effect = "Blur"         -> Blur
      [] effect = "Underwater"   -> Underwater
      [] effect = "Retro"        -> Retro
      [] effect = "Bloom"        -> Bloom

\* The enabled effects, in the order Tint ... Bloom
EnabledEffects == SelectSeq(EffectOrder, IsEnabled)

\* The effect shaders of an effect, in the order of its passes
ShadersOf(effect) ==
    CASE effect = "Tint"         -> << "gTintPostProcess" >>
      [] effect = "GaussianBlur" -> << "gGaussianBlurH_PostProcess",
                                       "gGaussianBlurV_PostProcess" >>
      [] effect = "Blur"         -> << "gBlur_PostProcess" >>
      [] effect = "Underwater"   -> << "gUnderwater_PostProcess" >>
      [] effect = "Retro"        -> << "gPixellate_PostProcess",
                                       "gBitColour_PostProcess" >>
      [] effect = "Bloom"        -> << "gBrightFilter_PostProcess",
                                       "gGaussianBlurH_PostProcess",
                                       "gGaussianBlurV_PostProcess",
                                       "gCombine_PostProcess" >>

\* The image the scene renderer produces
RawScene ==
    << "background", "gGround", "gCrate", "gCube", "gStars",
       "gLights[0]", "gLights[1]" >>

\* The image an effect makes of the image it is given: its shaders applied
\* in turn; Bloom combines the filtered and blurred image with the one given
OutputOf(effect, image) ==
    IF effect = "Bloom"
    THEN image \o SubSeq(ShadersOf(effect), 1, 3) \o image \o << "gCombine_PostProcess" >>
    ELSE image \o ShadersOf(effect)

\* What each pass of an effect should read, given the image before the effect
InputsOf(effect, image) ==
    [j \in 1..Len(ShadersOf(effect)) |->
        IF ShadersOf(effect)[j] = "gCombine_PostProcess"
        THEN << image \o SubSeq(ShadersOf(effect), 1, j - 1), image >>
        ELSE << image \o SubSeq(ShadersOf(effect), 1, j - 1) >>]

\* The frame result after the first k enabled effects
RECURSIVE ResultAfter(_)
ResultAfter(k) ==
    IF k = 0 THEN RawScene ELSE OutputOf(EnabledEffects[k], ResultAfter(k - 1))

RECURSIVE ExpectedReads(_)
ExpectedReads(k) ==
    IF k = 0 THEN << >>
    ELSE ExpectedReads(k - 1) \o InputsOf(EnabledEffects[k], ResultAfter(k - 1))

IsEffectDraw(e) == IsDraw(e) /\ e.ps # "gCopy_PostProcess"

\* The draws of a frame that run an effect shader
EffectDraws(log) == SelectSeq(log, IsEffectDraw)

\* The images a draw samples, in slot order
ReadsOf(e) == IF 1 \in SlotsRead(e.ps) THEN << e.in0, e.in1 >> ELSE << e.in0 >>

\* C11: in a frame, the first pass of the first enabled effect reads the raw
\* scene image, and every later pass reads the output of the pass or effect
\* before it (Bloom's combine also the image from before Bloom): no pass
\* reads an image an earlier effect has already replaced.
C11_EffectChaining ==
    (frameLog # << >> /\ AnyFlag) =>
        [i \in 1..Len(EffectDraws(frameLog)) |-> ReadsOf(EffectDraws(frameLog)[i])]
            = ExpectedReads(Len(EnabledEffects))

\* A frame of Tint, GaussianBlur and Bloom: the combine pass reads the tinted,
\* blurred scene in slot 1
C11_Witness ==
    /\ frameLog # << >>
    /\ Tint /\ GaussianBlur /\ Bloom /\ ~Blur /\ ~Underwater /\ ~Retro
    /\ \E i \in 1..Len(frameLog) :
          /\ IsDraw(frameLog[i])
          /\ frameLog[i].ps = "gCombine_PostProcess"
          /\ frameLog[i].in1 = RawScene \o << "gTintPostProcess",
                                              "gGaussianBlurH_PostProcess",
                                              "gGaussianBlurV_PostProcess" >>

\* Shaders of the effects that have one pass
SinglePassShaders ==
    { "gTintPostProcess", "gBlur_PostProcess", "gUnderwater_PostProcess" }

\* C12 (as stated): of two single-pass effects that follow each other in a
\* frame, the second reads the buffer the first wrote and writes the other
\* buffer.
C12_StrictAlternation ==
    \A i \in 1..(Len(EffectDraws(frameLog)) - 1) :
        (/\ EffectDraws(frameLog)[i].ps \in SinglePassShaders
         /\ EffectDraws(frameLog)[i + 1].ps \in SinglePassShaders)
           => /\ EffectDraws(frameLog)[i + 1].srv0 = EffectDraws(frameLog)[i].rt
              /\ EffectDraws(frameLog)[i + 1].rt # EffectDraws(frameLog)[i].rt

\* The first three passes of Bloom, which work between the bloom and the
\* post-process texture
IsBloomWorkingPass(e) ==
    \/ e.ps = "gBrightFilter_PostProcess"
    \/ e.ps = "gGaussianBlurH_PostProcess" /\ e.srv0 = "Bloom"
    \/ e.ps = "gGaussianBlurV_PostProcess" /\ e.srv0 = "PostProcess"

\* C12 (amended): every effect pass other than Bloom's first three reads the
\* scene texture and writes the post-process texture, and the next draw
\* copies its output from the post-process texture back to the scene
\* texture: the frame result is in the scene texture before and after every
\* effect, and all effects write the same buffer.
C12_CopyBackToScene ==
    \A i \in 1..Len(frameLog) :
        (IsEffectDraw(frameLog[i]) /\ ~IsBloomWorkingPass(frameLog[i])) =>
            /\ frameLog[i].rt = "PostProcess"
            /\ \/ frameLog[i].srv0 = "Scene"
               \/ frameLog[i].ps = "gCombine_PostProcess" /\ frameLog[i].srv1 = "Scene"
            /\ i < Len(frameLog)
            /\ IsDraw(frameLog[i + 1])
            /\ frameLog[i + 1].ps = "gCopy_PostProcess"
            /\ frameLog[i + 1].srv0 = "PostProcess"
            /\ frameLog[i + 1].rt = "Scene"
            /\ frameLog[i + 1].in0 =
                  (IF frameLog[i].ps = "gCombine_PostProcess"
                   THEN frameLog[i].in0 \o frameLog[i].in1
                   ELSE frameLog[i].in0) \o << frameLog[i].ps >>

\* A frame of Tint and Blur, both passes writing the post-process texture
C12_Witness ==
    /\ Tint /\ Blur /\ ~GaussianBlur
    /\ Len(EffectDraws(frameLog)) >= 2
    /\ EffectDraws(frameLog)[1].ps = "gTintPostProcess"
    /\ EffectDraws(frameLog)[2].ps = "gBlur_PostProcess"
    /\ EffectDraws(frameLog)[1].rt = "PostProcess"
    /\ EffectDraws(frameLog)[2].rt = "PostProcess"
    /\ EffectDraws(frameLog)[2].srv0 = "Scene"

\* Entries of a log that write the back buffer
BackBufferWrites(log) ==
    {i \in 1..Len(log) : log[i].op \in {"Clear", "Render", "Draw"}
                         /\ log[i].rt = "BackBuffer"}

\* The models a frame renders, in order
ModelsRendered(log) ==
    [i \in 1..Len(SelectSeq(log, LAMBDA e : e.op = "Render")) |->
        SelectSeq(log, LAMBDA e : e.op = "Render")[i].arg]

\* C13: a frame issues Present once, as its last operation. With no effect
\* enabled the back buffer is written by the scene render alone; otherwise it
\* is written by one draw, the frame's last, which copies the scene texture
\* holding the output of the last enabled effect. The scene is rendered
\* off-screen exactly when PostProcessing runs.
C13_Presentation ==
    frameLog # << >> =>
        /\ Cardinality({i \in 1..Len(frameLog) : frameLog[i].op = "Present"}) = 1
        /\ frameLog[Len(frameLog)].op = "Present"
        /\ RenderOffscreen <=> RunPostProcessing
        /\ ModelsRendered(frameLog) = Tail(RawScene)
        /\ IF AnyFlag \/ gCurrentPostProcess # "None"
           THEN /\ BackBufferWrites(frameLog) = {Len(frameLog) - 1}
                /\ IsDraw(frameLog[Len(frameLog) - 1])
                /\ frameLog[Len(frameLog) - 1].ps = "gCopy_PostProcess"
                /\ frameLog[Len(frameLog) - 1].srv0 = "Scene"
                /\ frameLog[Len(frameLog) - 1].in0 = ResultAfter(Len(EnabledEffects))
                /\ \A i \in 1..Len(frameLog) :
                      frameLog[i].op \in {"Clear", "Render"} => frameLog[i].rt = "Scene"
           ELSE /\ BackBufferWrites(frameLog) = 1..(Len(frameLog) - 1)
                /\ frameLog[1].op = "Clear"
                /\ \A i \in 2..(Len(frameLog) - 1) : frameLog[i].op = "Render"

\* A frame of Retro and Bloom presented with vertical sync switched off
C13_Witness ==
    /\ frameLog # << >>
    /\ Retro /\ Bloom /\ ~lockFPS
    /\ frameLog[Len(frameLog)].op = "Present"
    /\ frameLog[Len(frameLog)].arg = "0"
    /\ frameLog[Len(frameLog) - 1].rt = "BackBuffer"

\* C14 (as stated): at every Underwater pass hWave is the total of the frame
\* times of all frames rendered so far, this one included, and vWave is half
\* of it. (The constants carry hWave and vWave in half seconds.)
C14_WavePhase ==
    \A i \in 1..Len(frameLog) :
        (IsDraw(frameLog[i]) /\ frameLog[i].ps = "gUnderwater_PostProcess") =>
            /\ frameLog[i].cb.data.hWave = 2 * elapsed
            /\ 2 * frameLog[i].cb.data.vWave = frameLog[i].cb.data.hWave

\* C15: a step that renders a frame leaves the effect flags,
\* gCurrentPostProcess, lockFPS, the tunables and both tint colours as they
\* are, and every step that changes one of them is an UpdateScene step.
C15_StateReadOnlyInRender ==
    [][ /\ (frameLog = << >> /\ frameLog' # << >>) => inputVars' = inputVars
        /\ inputVars' # inputVars => (turn = "UpdateScene" /\ turn' = "RenderScene")
      ]_vars

\* A Spiral frame with Bloom on, rendered with a blurCurve that a held key
\* has moved
C15_Witness ==
    /\ frameLog # << >>
    /\ Bloom
    /\ gCurrentPostProcess = "Spiral"
    /\ blurCurve # 0
    /\ gPostProcessingConstants.blurBellcurveStrength = blurCurve
    /\ tintColour.x # 180

\* C16 (as stated): no colour buffer that a full-screen draw of the frame
\* writes is bound as render target or cleared by the scene renderer.
C16_ExclusiveOwnership ==
    \A i, j \in 1..Len(frameLog) :
        (/\ frameLog[i].op \in {"Clear", "Render"}
         /\ IsDraw(frameLog[j])
         /\ frameLog[j].rt \in ColourBuffers)
           => frameLog[i].rt # frameLog[j].rt

\* C16 (amended): the scene renderer clears and renders into the scene
\* texture when an effect is enabled and into the back buffer otherwise,
\* never into the post-process or bloom texture; the scene texture is also
\* written by the compositor, by its copy passes from the post-process
\* texture and by nothing else.
C16_SceneTextureShared ==
    frameLog # << >> =>
        /\ \A i \in 1..Len(frameLog) :
              frameLog[i].op \in {"Clear", "Render"} =>
                 /\ frameLog[i].rt \notin {"PostProcess", "Bloom"}
                 /\ frameLog[i].rt = (IF AnyFlag \/ gCurrentPostProcess # "None"
                                      THEN "Scene" ELSE "BackBuffer")
                 /\ frameLog[i].op = "Clear" => frameLog[i].arg = frameLog[i].rt
        /\ \A j \in 1..Len(frameLog) :
              (IsDraw(frameLog[j]) /\ frameLog[j].rt = "Scene") =>
                 /\ frameLog[j].ps = "gCopy_PostProcess"
                 /\ frameLog[j].srv0 = "PostProcess"
        /\ AnyFlag => \E j \in 1..Len(frameLog) :
                         IsDraw(frameLog[j]) /\ frameLog[j].rt = "Scene"

\* A Bloom frame: the scene texture cleared by the scene renderer and written
\* by a copy pass, the bloom and post-process textures written by draws only
C16_Witness ==
    /\ Bloom
    /\ \E i, j, k, l \in 1..Len(frameLog) :
          /\ frameLog[i].op = "Clear" /\ frameLog[i].rt = "Scene"
          /\ IsDraw(frameLog[j]) /\ frameLog[j].rt = "Scene" /\ i < j
          /\ IsDraw(frameLog[k]) /\ frameLog[k].rt = "Bloom"
          /\ IsDraw(frameLog[l]) /\ frameLog[l].rt = "PostProcess"

\* The effect shaders of the first k enabled effects, effect after effect
RECURSIVE ExpectedShaders(_)
ExpectedShaders(k) ==
    IF k = 0 THEN << >> ELSE ExpectedShaders(k - 1) \o ShadersOf(EnabledEffects[k])

\* C17: the effect-shader draws of a frame are those of the enabled effects,
\* effect after effect with nothing interleaved: one for Tint, Blur and
\* Underwater, horizontal then vertical for GaussianBlur, pixellate then
\* bit-colour for Retro, bright filter, horizontal, vertical and combine for
\* Bloom; the pixellate pass is drawn with pixelSize in the constant buffer
\* and the bit-colour pass with bitColour.
C17_SubPassOrder ==
    (frameLog # << >> /\ AnyFlag) =>
        /\ [i \in 1..Len(EffectDraws(frameLog)) |-> EffectDraws(frameLog)[i].ps]
              = ExpectedShaders(Len(EnabledEffects))
        /\ \A i \in 1..Len(frameLog) :
              IsDraw(frameLog[i]) =>
                 /\ frameLog[i].ps = "gPixellate_PostProcess"
                       => frameLog[i].cb.data.noiseScale = pixelSize
                 /\ frameLog[i].ps = "gBitColour_PostProcess"
                       => frameLog[i].cb.data.bitColour = bitColour

\* A frame with all six effects on: eleven effect-shader draws
C17_Witness ==
    /\ Tint /\ GaussianBlur /\ Blur /\ Underwater /\ Retro /\ Bloom
    /\ Len(EffectDraws(frameLog)) = 11
    /\ EffectDraws(frameLog)[7].ps = "gBitColour_PostProcess"
    /\ EffectDraws(frameLog)[7].cb.data.bitColour = InitialBitColour

\* Position among the draws of a frame of the first draw with a shader
FirstDraw(log, shader) ==
    CHOOSE i \in 1..Len(Draws(log)) :
        /\ Draws(log)[i].ps = shader
        /\ \A j \in 1..(i - 1) : Draws(log)[j].ps # shader

\* The horizontal and the vertical pass of the GaussianBlur effect (Bloom's
\* own blur passes come later in the frame)
GaussianH(log) == Draws(log)[FirstDraw(log, "gGaussianBlurH_PostProcess")]
GaussianV(log) == Draws(log)[FirstDraw(log, "gGaussianBlurV_PostProcess")]

C19_HueModulo ==
    /\ tintColour.x
          = (RGBToHSL(Vec(0, 1, 1)).x + HueRate * (elapsed + lapTime)) % HueWrap
    /\ tintColour2.x
          = (RGBToHSL(Vec(1, 1, 0)).x + HueRate2 * (elapsed + lapTime)) % HueWrap

\* C20: gCurrentPostProcess is PostProcess::None in every reachable state,
\* so no frame runs the Spiral branch (its noise shader is never selected
\* and wiggle never advances) or the PyramidBlur pass; a rendered frame has
\* full-screen draws exactly when one of the six flags is set; and until the
\* first update after start-up all six flags are false.
C20_SelectorStaysNone ==
    /\ gCurrentPostProcess = "None"
    /\ wiggle = 0
    /\ \A i \in 1..Len(frameLog) :
          frameLog[i].ps \notin {"gNoise_PostProcess", "gPyramidBlur_PostProcess"}
    /\ frameLog # << >> => (Draws(frameLog) # << >> <=> AnyFlag)
    /\ phase \in {"start", "geometry", "failed"} => ~AnyFlag

\* A post-processed frame with two of the flags set and a later frame with
\* timer advanced, the selector still None
C20_Witness ==
    /\ gCurrentPostProcess = "None"
    /\ Retro /\ Underwater /\ ~Tint
    /\ timer > 0
    /\ Draws(frameLog) # << >>

====
